---- MODULE Spec2Model ----
(***************************************************************************)
(* Drone motion and trajectory replay on the shared scene clock.           *)
(*                                                                         *)
(* Positions are metres along a line (naturals), so that the distance of   *)
(* two positions is |a - b|; times are whole seconds on one time axis.     *)
(* With these units the 0.1 m threshold of moveDronePoint reads            *)
(* "distance = 0" and the 1 m threshold of moveDroneTrail "distance > 1".  *)
(* A tick of the scene is one second of wall time.                         *)
(***************************************************************************)
EXTENDS Integers, Sequences, FiniteSets, TLC

\* ---------------------------------------------------------------- bounds
MaxTime == 4        \* the clock is not ticked past this time
MaxPos == 2         \* positions offered to the commands are 0..MaxPos
MaxObjs == 2        \* drone objects ever created
MaxFlights == 3     \* flights ever started
MaxSessions == 1    \* replay controllers ever created
MaxTrail == 4       \* points a trail is let grow to

\* ------------------------------------------------------ program constants
AnchorSeconds == 3600   \* far-future anchor sample of a finished flight

Ids == {"A", "B"}       \* the drone ids of the scene
Drones == {"A"}         \* the drone the commands are given to
Speeds == {1, 2}
Undef == -1             \* undefined (getValue has no value at that time)
NoPos == -1             \* entity.position is the sampled property itself
NoTrailTime == -1       \* retention sentinel: keep every point
NoListener == 0         \* flightEndListener = null
NaN == -2               \* the number that is not a number

VARIABLES
  map,         \* mapStore.getMap() returns a map (the scene is mounted)
  replayData,  \* the array last passed as options.replayData, as the
               \* caller finds it after the call
  clock,       \* map.clock: currentTime, startTime, stopTime, multiplier,
               \*            shouldAnimate, clockRange
  onTick,      \* map.clock.onTick: the subscribed listeners, in order
  graphicMap,  \* mapStore.graphicMap: id -> drone object (0: absent)
  objs,        \* the drone objects (modelEntity), by creation order
  trails,      \* mapStore drone trails, by drone id
  sessions,    \* the replay controllers with their closures
  trailTime,   \* mapStore.getTrailTime()
  nextLid,     \* identity of the next listener closure
  phase,       \* history, per session: "ready" until the first play(),
               \* "played" after a play(), "destroyed" after a destroy()
               \* that followed a play()
  lastOp,      \* history: the operation that produced this state; for a
               \* transport operation flag tells whether the session was
               \* in phase "played" when it was called, for a move whether
               \* the drone was flying when it was called (and speed
               \* is the speed it was given); for play(),
               \* continue() and pause() arg is 1 when the session was
               \* playing at the call, else 0
  atLoad,      \* history, per session: the position its drone had at the
               \* time of the first waypoint when the load returned
  shrunk       \* history: the drones whose trail holds fewer points than
               \* before the operation that produced this state

vars == <<map, replayData, clock, onTick, graphicMap, objs, trails, sessions, trailTime,
          nextLid, phase, lastOp, atLoad, shrunk>>

\* ------------------------------------------------------------ arithmetic
Abs(x) == IF x < 0 THEN -x ELSE x

\* Arithmetic and comparison of numbers of which one may be NaN: the
\* result is NaN, the comparison is false.
Less(a, b) == a # NaN /\ b # NaN /\ a < b

Quotient(a, b) == IF a = NaN \/ b = NaN THEN NaN ELSE a \div b

\* Cesium.JulianDate.addSeconds
AddSeconds(t, seconds) == IF t = NaN \/ seconds = NaN THEN NaN ELSE t + seconds

\* Cesium.Cartesian3.distance
Distance(a, b) == IF a = NaN \/ b = NaN THEN NaN ELSE Abs(a - b)

\* ------------------------------------------------- sampled position curve
\* A curve is a sequence of samples [t, p], strictly increasing in t.

\* SampledPositionProperty.addSample: insert in time order, a sample at an
\* existing time replaces the value held there. A time that is NaN compares
\* as neither before nor after the sample the binary search probes first
\* (the middle one), which is taken for a match and has its value replaced.
RECURSIVE AddSample(_, _, _)
AddSample(curve, t, p) ==
  IF curve = <<>> THEN <<[t |-> t, p |-> p]>>
  ELSE IF t = NaN
    THEN [curve EXCEPT ![((Len(curve) - 1) \div 2) + 1].p = p]
  ELSE IF Head(curve).t = t THEN <<[t |-> t, p |-> p]>> \o Tail(curve)
  ELSE IF Head(curve).t > t THEN <<[t |-> t, p |-> p]>> \o curve
  ELSE <<Head(curve)>> \o AddSample(Tail(curve), t, p)

\* The value between two neighbouring samples a and b at time t, on the
\* straight line through them, as a flight's curve interpolates. The moves
\* offered keep it whole: the speed divides the distance. A replay curve
\* (Hermite, degree 2) agrees with it at the samples, where it is read.
Interpolate(a, b, t) ==
  IF b.p >= a.p
    THEN a.p + (((b.p - a.p) * (t - a.t)) \div (b.t - a.t))
    ELSE a.p - (((a.p - b.p) * (t - a.t)) \div (b.t - a.t))

\* SampledPositionProperty.getValue: no value outside the sampled range
\* (the property does not extrapolate), the sample at a sampled time, the
\* interpolated value between two samples.
GetValue(curve, t) ==
  IF curve = <<>> THEN Undef
  ELSE IF t < curve[1].t \/ t > curve[Len(curve)].t THEN Undef
  ELSE IF \E i \in 1..Len(curve) : curve[i].t = t
    THEN LET i == CHOOSE j \in 1..Len(curve) : curve[j].t = t IN curve[i].p
  ELSE LET i == CHOOSE j \in 1..(Len(curve) - 1) :
                  curve[j].t < t /\ t < curve[j + 1].t
       IN Interpolate(curve[i], curve[i + 1], t)

\* entity.position.getValue(time): a constant position, or the curve.
EntityValue(o, t) ==
  IF o.posConst # NoPos THEN o.posConst ELSE GetValue(o.prop, t)

\* ------------------------------------------------------------ trail store
NoTrail == [exists |-> FALSE, positions |-> <<>>, lastUpdateTime |-> 0]

\* Mutant: a filter that keeps the points of one second more.
SelectSeqFromEarlier(s, cutoff) ==
  SelectSeq(s, LAMBDA pt : pt.timestamp >= cutoff - 1)

\* positions.filter(point => compare(point.timestamp, cutoffTime) >= 0)
SelectSeqFrom(s, cutoff) == SelectSeq(s, LAMBDA pt : pt.timestamp >= cutoff)

\* setDroneTrail: an existing trail is returned as it is, otherwise a trail
\* holding the start position stamped with the clock's current time.
setDroneTrail(tr, id, pos, now) ==
  IF tr[id].exists THEN tr
  ELSE [tr EXCEPT ![id] =
          [exists |-> TRUE,
           positions |-> <<[position |-> pos, timestamp |-> now]>>,
           lastUpdateTime |-> now]]

\* mapStore.clearDroneTrail: the store forgets the trail.
storeClearDroneTrail(tr, id) == [tr EXCEPT ![id] = NoTrail]

\* clearDroneTrail: a trail the store holds is taken out of the scene and
\* out of the store.
clearDroneTrail(tr, id) ==
  IF tr[id].exists THEN storeClearDroneTrail(tr, id) ELSE tr

\* Mutant: the sentinel of the retention is taken for a window.
moveDroneTrailPrunesAlways(tr, id, pos, now, keep) ==
  IF ~tr[id].exists THEN setDroneTrail(tr, id, pos, now)
  ELSE LET pts == tr[id].positions
           pushed == Append(pts, [position |-> pos, timestamp |-> now])
       IN IF pts # <<>>
            THEN IF Less(1, Distance(pts[Len(pts)].position, pos))
                   THEN [tr EXCEPT ![id].positions =
                            IF keep # NoTrailTime - 1
                              THEN SelectSeqFrom(pushed, now - keep)
                              ELSE pushed,
                          ![id].lastUpdateTime = now]
                   ELSE tr
            ELSE [tr EXCEPT ![id].positions = pushed,
                            ![id].lastUpdateTime = now]

\* Mutant: a point at the minimum distance from the last one is recorded.
moveDroneTrailAtThreshold(tr, id, pos, now, keep) ==
  IF ~tr[id].exists THEN setDroneTrail(tr, id, pos, now)
  ELSE LET pts == tr[id].positions
           pushed == Append(pts, [position |-> pos, timestamp |-> now])
       IN IF pts # <<>>
            THEN IF Less(0, Distance(pts[Len(pts)].position, pos))
                   THEN [tr EXCEPT ![id].positions =
                            IF keep # NoTrailTime
                              THEN SelectSeqFrom(pushed, now - keep)
                              ELSE pushed,
                          ![id].lastUpdateTime = now]
                   ELSE tr
            ELSE [tr EXCEPT ![id].positions = pushed,
                            ![id].lastUpdateTime = now]

\* moveDroneTrail: record a point of the drone's trail. A trail that holds
\* points takes one farther than the minimum distance (1 m) from its last
\* point, and is then pruned to the retention window if one is set; an
\* empty trail takes any point.
moveDroneTrail(tr, id, pos, now, keep) ==
  IF ~tr[id].exists THEN setDroneTrail(tr, id, pos, now)
  ELSE LET pts == tr[id].positions
           pushed == Append(pts, [position |-> pos, timestamp |-> now])
       IN IF pts # <<>>
            THEN IF Less(1, Distance(pts[Len(pts)].position, pos))
                   THEN [tr EXCEPT ![id].positions =
                            IF keep # NoTrailTime
                              THEN SelectSeqFrom(pushed, now - keep)
                              ELSE pushed,
                          ![id].lastUpdateTime = now]
                   ELSE tr
            ELSE [tr EXCEPT ![id].positions = pushed,
                            ![id].lastUpdateTime = now]

\* ------------------------------------------------------- clock listeners
RemoveListener(ls, lid) == SelectSeq(ls, LAMBDA l : l.lid # lid)

Subscribed(ls, lid) == \E i \in 1..Len(ls) : ls[i].lid = lid

\* ------------------------------------------------------------- the world
\* The handlers are functions of the world w: the record of the program
\* state they read and write.
World == [map |-> map, replayData |-> replayData, clock |-> clock, onTick |-> onTick, graphicMap |-> graphicMap,
          objs |-> objs, trails |-> trails, sessions |-> sessions,
          trailTime |-> trailTime, nextLid |-> nextLid]

Now(w) == w.clock.currentTime

Trail(w, id, pos) ==
  IF ~w.map THEN w
  ELSE [w EXCEPT
          !.trails = moveDroneTrail(w.trails, id, pos, Now(w), w.trailTime)]

\* setDronePointByGlb: the drone object of an id, created at pos when the
\* registry holds none, with its curve anchored at the current time and
\* its trail. Nothing is created without a map.
setDronePointByGlb(w, id, pos) ==
  IF ~w.map THEN w
  ELSE IF w.graphicMap[id] # 0 THEN w
  ELSE [w EXCEPT
          !.objs = Append(w.objs,
                     [id |-> id, isFlying |-> FALSE,
                      flightEndListener |-> NoListener,
                      prop |-> <<[t |-> Now(w), p |-> pos]>>,
                      posConst |-> NoPos, currentPosition |-> pos]),
          !.trails = setDroneTrail(w.trails, id, pos, Now(w)),
          !.graphicMap[id] = Len(w.objs) + 1]

\* ------------------------------------------------------- moveDronePoint
\* Mutant: the position recorded when the flight under way began.
CurrentRealPositionRecorded(w, o) == w.objs[o].currentPosition

\* The drone's real position at the current time: the entity's position,
\* else the curve's value, else the recorded currentPosition.
CurrentRealPosition(w, o) ==
  LET e == w.objs[o]
      v1 == EntityValue(e, Now(w))
      v2 == IF v1 = Undef THEN GetValue(e.prop, Now(w)) ELSE v1
  IN IF v2 = Undef THEN e.currentPosition ELSE v2

\* Mutant: the previous flight's completion listener stays subscribed.
CancelFlightKeepListener(w, o) ==
  [w EXCEPT !.objs[o].flightEndListener = NoListener,
            !.objs[o].isFlying = FALSE]

\* "Terminate the current flight state": unsubscribe the stored completion
\* listener, clear the flying flag.
CancelFlight(w, o) ==
  [w EXCEPT
     !.onTick = IF w.objs[o].flightEndListener # NoListener
                  THEN RemoveListener(w.onTick, w.objs[o].flightEndListener)
                  ELSE w.onTick,
     !.objs[o].flightEndListener = NoListener,
     !.objs[o].isFlying = FALSE]

\* A fresh curve holding the real position at the current time.
ResetCurve(w, o, cur) ==
  [w EXCEPT !.objs[o].prop = <<[t |-> Now(w), p |-> cur]>>,
            !.objs[o].posConst = NoPos]

\* The target is (nearly) the current position: place the drone there.
PlaceAtTarget(w, o, id, target) ==
  Trail([w EXCEPT !.objs[o].currentPosition = target,
                  !.objs[o].prop = AddSample(w.objs[o].prop, Now(w), target),
                  !.objs[o].posConst = NoPos],
        id, target)

\* Mutant: a flight that leaves the clock's window and range as they are.
StartFlightKeepsWindow(w, o, id, cur, target, speed) ==
  LET flightEndTime == AddSeconds(Now(w),
                                  Quotient(Distance(cur, target), speed))
      u == [lid |-> w.nextLid, kind |-> "trail", obj |-> o, id |-> id,
            endTime |-> 0, target |-> 0, peer |-> 0]
      e == [lid |-> w.nextLid + 1, kind |-> "end", obj |-> o, id |-> id,
            endTime |-> flightEndTime, target |-> target,
            peer |-> w.nextLid]
  IN [w EXCEPT
        !.clock.shouldAnimate = TRUE,
        !.objs[o].prop = AddSample(AddSample(w.objs[o].prop, Now(w), cur),
                                   flightEndTime, target),
        !.objs[o].isFlying = TRUE,
        !.objs[o].currentPosition = cur,
        !.objs[o].flightEndListener = w.nextLid + 1,
        !.onTick = w.onTick \o <<u, e>>,
        !.nextLid = w.nextLid + 2]

\* Mutant: a flight that leaves the clock halted when it is.
StartFlightClockHalted(w, o, id, cur, target, speed) ==
  LET flightEndTime == AddSeconds(Now(w),
                                  Quotient(Distance(cur, target), speed))
      u == [lid |-> w.nextLid, kind |-> "trail", obj |-> o, id |-> id,
            endTime |-> 0, target |-> 0, peer |-> 0]
      e == [lid |-> w.nextLid + 1, kind |-> "end", obj |-> o, id |-> id,
            endTime |-> flightEndTime, target |-> target,
            peer |-> w.nextLid]
  IN [w EXCEPT
        !.clock.startTime = Now(w),
        !.clock.stopTime = flightEndTime,
        !.clock.clockRange = "UNBOUNDED",
        !.objs[o].prop = AddSample(AddSample(w.objs[o].prop, Now(w), cur),
                                   flightEndTime, target),
        !.objs[o].isFlying = TRUE,
        !.objs[o].currentPosition = cur,
        !.objs[o].flightEndListener = w.nextLid + 1,
        !.onTick = w.onTick \o <<u, e>>,
        !.nextLid = w.nextLid + 2]

\* The new flight: clock window, the two samples, the flying flag and the
\* two tick listeners (trail update first, completion second).
StartFlight(w, o, id, cur, target, speed) ==
  LET flightEndTime == AddSeconds(Now(w),
                                  Quotient(Distance(cur, target), speed))
      u == [lid |-> w.nextLid, kind |-> "trail", obj |-> o, id |-> id,
            endTime |-> 0, target |-> 0, peer |-> 0]
      e == [lid |-> w.nextLid + 1, kind |-> "end", obj |-> o, id |-> id,
            endTime |-> flightEndTime, target |-> target,
            peer |-> w.nextLid]
  IN [w EXCEPT
        !.clock.shouldAnimate = TRUE,
        !.clock.startTime = Now(w),
        !.clock.stopTime = flightEndTime,
        !.clock.clockRange = "UNBOUNDED",
        !.objs[o].prop = AddSample(AddSample(w.objs[o].prop, Now(w), cur),
                                   flightEndTime, target),
        !.objs[o].isFlying = TRUE,
        !.objs[o].currentPosition = cur,
        !.objs[o].flightEndListener = w.nextLid + 1,
        !.onTick = w.onTick \o <<u, e>>,
        !.nextLid = w.nextLid + 2]

\* Mutant: a move that starts a flight however near the target is.
moveDronePointAlwaysFlies(w, id, target, speed) ==
  IF ~w.map THEN w
  ELSE IF w.graphicMap[id] = 0 THEN setDronePointByGlb(w, id, target)
  ELSE LET o == w.graphicMap[id]
           cur == CurrentRealPosition(w, o)
           w1 == ResetCurve(CancelFlight(Trail(w, id, cur), o), o, cur)
       IN IF Less(Distance(cur, target), 0)
            THEN PlaceAtTarget(w1, o, id, target)
            ELSE StartFlight(w1, o, id, cur, target, speed)

\* Mutant: a move that sets the clock running when it creates the drone.
moveDronePointStartsClock(w, id, target, speed) ==
  IF ~w.map THEN w
  ELSE IF w.graphicMap[id] = 0
    THEN [setDronePointByGlb(w, id, target) EXCEPT
            !.clock.shouldAnimate = TRUE]
  ELSE LET o == w.graphicMap[id]
           cur == CurrentRealPosition(w, o)
           w1 == ResetCurve(CancelFlight(Trail(w, id, cur), o), o, cur)
       IN IF Less(Distance(cur, target), 1)
            THEN PlaceAtTarget(w1, o, id, target)
            ELSE StartFlight(w1, o, id, cur, target, speed)

moveDronePoint(w, id, target, speed) ==
  IF ~w.map THEN w
  ELSE IF w.graphicMap[id] = 0 THEN setDronePointByGlb(w, id, target)
  ELSE LET o == w.graphicMap[id]
           cur == CurrentRealPosition(w, o)
           w1 == ResetCurve(CancelFlight(Trail(w, id, cur), o), o, cur)
       IN IF Less(Distance(cur, target), 1)
            THEN PlaceAtTarget(w1, o, id, target)
            ELSE StartFlight(w1, o, id, cur, target, speed)

\* moveDronePoint on a build of the library that checks its arguments and
\* is given a longitude that is NaN: Cartesian3.fromDegrees raises. For a
\* drone not yet registered that is before setDronePointByGlb adds the
\* entity; for a registered drone it is where the target position is
\* computed, after the trail point, the cancelling and the fresh curve.
moveDronePointRaising(w, id) ==
  IF ~w.map THEN w
  ELSE IF w.graphicMap[id] = 0 THEN w
  ELSE LET o == w.graphicMap[id]
           cur == CurrentRealPosition(w, o)
       IN ResetCurve(CancelFlight(Trail(w, id, cur), o), o, cur)

\* ------------------------------------------------------ the tick listeners
\* updateTrailListener: while the drone flies, record its position.
updateTrailListener(w, l) ==
  IF ~w.objs[l.obj].isFlying THEN w
  ELSE LET cp == GetValue(w.objs[l.obj].prop, Now(w))
       IN IF cp # Undef THEN Trail(w, l.id, cp) ELSE w

\* flightEndListener: the trail update, then completion at the end time.
flightEndListener(w, l) ==
  LET w1 == updateTrailListener(w, l)
  IN IF Now(w1) >= l.endTime
       THEN LET w2 == Trail([w1 EXCEPT
                               !.objs[l.obj].currentPosition = l.target,
                               !.objs[l.obj].isFlying = FALSE],
                            l.id, l.target)
            IN [w2 EXCEPT
                  !.objs[l.obj].prop =
                     AddSample(w2.objs[l.obj].prop,
                               l.endTime + AnchorSeconds, l.target),
                  !.onTick = RemoveListener(RemoveListener(w2.onTick, l.lid),
                                            l.peer),
                  !.objs[l.obj].flightEndListener = NoListener]
       ELSE w1

\* replayController.tickHandler: automatic completion of a replay.
tickHandler(w, l) ==
  IF ~w.sessions[l.obj].loop /\ Now(w) >= w.clock.stopTime
    THEN [w EXCEPT !.sessions[l.obj].isPlaying = FALSE,
                   !.onTick = RemoveListener(w.onTick, l.lid)]
    ELSE w

Listener(w, l) ==
  IF l.kind = "trail" THEN updateTrailListener(w, l)
  ELSE IF l.kind = "end" THEN flightEndListener(w, l)
  ELSE tickHandler(w, l)

\* Event.raiseEvent: the listeners subscribed when the event is raised are
\* called in subscription order; one removed earlier in the same round is
\* not called.
RECURSIVE RaiseEvent(_, _)
RaiseEvent(w, ls) ==
  IF ls = <<>> THEN w
  ELSE RaiseEvent(IF Subscribed(w.onTick, Head(ls).lid)
                    THEN Listener(w, Head(ls)) ELSE w,
                  Tail(ls))

\* Clock.tick: advance the time when animating, within the range policy,
\* then raise onTick.
ClockAdvance(c) ==
  IF ~c.shouldAnimate THEN c
  ELSE LET t == c.currentTime + c.multiplier
       IN IF c.clockRange = "CLAMPED"
            THEN [c EXCEPT !.currentTime =
                    IF t < c.startTime THEN c.startTime
                    ELSE IF t > c.stopTime THEN c.stopTime ELSE t]
          ELSE IF c.clockRange = "LOOP_STOP"
            THEN [c EXCEPT !.currentTime =
                    IF t < c.startTime THEN c.startTime
                    ELSE IF t > c.stopTime /\ c.stopTime > c.startTime
                      THEN c.startTime
                             + ((t - c.stopTime) % (c.stopTime - c.startTime))
                    ELSE t]
          ELSE [c EXCEPT !.currentTime = t]

tick(w) ==
  LET w1 == [w EXCEPT !.clock = ClockAdvance(w.clock)]
  IN RaiseEvent(w1, w1.onTick)

\* ------------------------------------------------------- replayDronePath
\* Mutant: a sort that puts a point before the points of its timestamp.
RECURSIVE InsertByTimestampBeforeEqual(_, _)
InsertByTimestampBeforeEqual(sorted, pt) ==
  IF sorted = <<>> THEN <<pt>>
  ELSE IF Head(sorted).timestamp >= pt.timestamp THEN <<pt>> \o sorted
  ELSE <<Head(sorted)>> \o InsertByTimestampBeforeEqual(Tail(sorted), pt)

\* Array.prototype.sort with (a, b) => a.timestamp - b.timestamp: stable,
\* ascending in timestamp.
RECURSIVE InsertByTimestamp(_, _)
InsertByTimestamp(sorted, pt) ==
  IF sorted = <<>> THEN <<pt>>
  ELSE IF Head(sorted).timestamp > pt.timestamp THEN <<pt>> \o sorted
  ELSE <<Head(sorted)>> \o InsertByTimestamp(Tail(sorted), pt)

\* Mutant: the data taken in the caller's order.
SortByTimestampNone(data) == data

RECURSIVE SortByTimestamp(_)
SortByTimestamp(data) ==
  IF data = <<>> THEN <<>>
  ELSE InsertByTimestamp(SortByTimestamp(SubSeq(data, 1, Len(data) - 1)),
                         data[Len(data)])

\* positionProperty.addSample for each point, in order.
RECURSIVE AddSamples(_, _)
AddSamples(curve, pts) ==
  IF pts = <<>> THEN curve
  ELSE AddSamples(AddSample(curve, Head(pts).timestamp, Head(pts).position),
                  Tail(pts))

\* Mutant: a load that accepts a single waypoint.
replayDronePathOffByOne(w, id, data, speed, loop) ==
  IF ~w.map THEN w
  ELSE IF Len(data) < 1 THEN w
  ELSE LET sortedData == SortByTimestamp(data)
           w1 == setDronePointByGlb(w, id, sortedData[1].position)
           o == w1.graphicMap[id]
           tr == setDroneTrail(w1.trails, id, sortedData[1].position, Now(w1))
       IN [w1 EXCEPT
             !.trails = [tr EXCEPT
                ![id].positions = sortedData,
                ![id].lastUpdateTime = sortedData[Len(sortedData)].timestamp],
             !.objs[o].prop = AddSamples(<<>>, sortedData),
             !.objs[o].posConst = NoPos,
             !.sessions = Append(w1.sessions,
                [droneId |-> id, droneEntity |-> o, hasPlayed |-> FALSE,
                 isPlaying |-> FALSE, speed |-> speed, loop |-> loop,
                 first |-> sortedData[1], tickHandler |-> w1.nextLid]),
             !.onTick = Append(w1.onTick,
                [lid |-> w1.nextLid, kind |-> "replay",
                 obj |-> Len(w1.sessions) + 1, id |-> id,
                 endTime |-> 0, target |-> 0, peer |-> 0]),
             !.nextLid = w1.nextLid + 1,
             !.clock.shouldAnimate = FALSE]

\* The controller of a new replay: the drone is created at the first point
\* when absent, its trail is replaced by the sorted points, its position is
\* the curve through them, the tick handler is subscribed and the clock is
\* halted. The data are sorted in a copy. Without a map, or with fewer
\* than two points, nothing is done.
replayDronePath(w, id, data, speed, loop) ==
  IF ~w.map THEN w
  ELSE IF Len(data) < 2 THEN w
  ELSE LET sortedData == SortByTimestamp(data)
           w1 == setDronePointByGlb(w, id, sortedData[1].position)
           o == w1.graphicMap[id]
           tr == setDroneTrail(w1.trails, id, sortedData[1].position, Now(w1))
       IN [w1 EXCEPT
             !.trails = [tr EXCEPT
                ![id].positions = sortedData,
                ![id].lastUpdateTime = sortedData[Len(sortedData)].timestamp],
             !.objs[o].prop = AddSamples(<<>>, sortedData),
             !.objs[o].posConst = NoPos,
             !.sessions = Append(w1.sessions,
                [droneId |-> id, droneEntity |-> o, hasPlayed |-> FALSE,
                 isPlaying |-> FALSE, speed |-> speed, loop |-> loop,
                 first |-> sortedData[1], tickHandler |-> w1.nextLid]),
             !.onTick = Append(w1.onTick,
                [lid |-> w1.nextLid, kind |-> "replay",
                 obj |-> Len(w1.sessions) + 1, id |-> id,
                 endTime |-> 0, target |-> 0, peer |-> 0]),
             !.nextLid = w1.nextLid + 1,
             !.clock.shouldAnimate = FALSE]

\* Mutant: play() that sets the clock's window to the session's first
\* waypoint and the current time.
playReplayOwnsWindow(w, s) ==
  IF ~w.sessions[s].isPlaying
    THEN [w EXCEPT !.clock.shouldAnimate = TRUE,
                   !.clock.startTime = w.sessions[s].first.timestamp,
                   !.clock.stopTime = w.clock.currentTime,
                   !.sessions[s].isPlaying = TRUE,
                   !.sessions[s].hasPlayed = TRUE]
    ELSE w

\* Mutant: play() that does not mark the controller as played.
playReplayUnmarked(w, s) ==
  IF ~w.sessions[s].isPlaying
    THEN [w EXCEPT !.clock.shouldAnimate = TRUE,
                   !.sessions[s].isPlaying = TRUE]
    ELSE w

playReplay(w, s) ==
  IF ~w.sessions[s].isPlaying
    THEN [w EXCEPT !.clock.shouldAnimate = TRUE,
                   !.sessions[s].isPlaying = TRUE,
                   !.sessions[s].hasPlayed = TRUE]
    ELSE w

\* Mutant: continue() that leaves the clock's multiplier as it is.
continueReplayKeepsRate(w, s) ==
  IF ~w.sessions[s].hasPlayed THEN w
  ELSE IF ~w.sessions[s].isPlaying
    THEN [w EXCEPT !.clock.shouldAnimate = TRUE,
                   !.sessions[s].isPlaying = TRUE]
    ELSE w

continueReplay(w, s) ==
  IF ~w.sessions[s].hasPlayed THEN w
  ELSE IF ~w.sessions[s].isPlaying
    THEN [w EXCEPT !.clock.multiplier = w.sessions[s].speed,
                   !.clock.shouldAnimate = TRUE,
                   !.sessions[s].isPlaying = TRUE]
    ELSE w

\* Mutant: pause() that halts the clock whether the session plays or not.
pauseReplayAlways(w, s) ==
  IF ~w.sessions[s].hasPlayed THEN w
  ELSE [w EXCEPT !.clock.shouldAnimate = FALSE,
                 !.sessions[s].isPlaying = FALSE]

pauseReplay(w, s) ==
  IF ~w.sessions[s].hasPlayed THEN w
  ELSE IF w.sessions[s].isPlaying
    THEN [w EXCEPT !.clock.shouldAnimate = FALSE,
                   !.sessions[s].isPlaying = FALSE]
    ELSE w

\* Mutant: stop() without the guard on the first play().
stopReplayUnguarded(w, s) ==
  [w EXCEPT
     !.clock.shouldAnimate = FALSE,
     !.clock.currentTime = w.clock.startTime,
     !.sessions[s].isPlaying = FALSE,
     !.objs[w.sessions[s].droneEntity].posConst =
        w.sessions[s].first.position]

\* Mutant: stop() that halts the clock where it is.
stopReplayNoRewind(w, s) ==
  IF ~w.sessions[s].hasPlayed THEN w
  ELSE [w EXCEPT
          !.clock.shouldAnimate = FALSE,
          !.sessions[s].isPlaying = FALSE,
          !.objs[w.sessions[s].droneEntity].posConst =
             w.sessions[s].first.position]

stopReplay(w, s) ==
  IF ~w.sessions[s].hasPlayed THEN w
  ELSE [w EXCEPT
          !.clock.shouldAnimate = FALSE,
          !.clock.currentTime = w.clock.startTime,
          !.sessions[s].isPlaying = FALSE,
          !.objs[w.sessions[s].droneEntity].posConst =
             w.sessions[s].first.position]

\* Mutant: seek() by an offset from the current time.
seekReplayFromCurrent(w, s, time) ==
  IF ~w.sessions[s].hasPlayed THEN w
  ELSE [w EXCEPT
          !.clock.currentTime = w.clock.currentTime + time,
          !.clock.shouldAnimate =
             IF w.sessions[s].isPlaying THEN TRUE ELSE w.clock.shouldAnimate]

\* Mutant: seek() that always sets the clock running.
seekReplayResumes(w, s, time) ==
  IF ~w.sessions[s].hasPlayed THEN w
  ELSE [w EXCEPT
          !.clock.currentTime = w.clock.startTime + time,
          !.clock.shouldAnimate = TRUE]

seekReplay(w, s, time) ==
  IF ~w.sessions[s].hasPlayed THEN w
  ELSE [w EXCEPT
          !.clock.currentTime = w.clock.startTime + time,
          !.clock.shouldAnimate =
             IF w.sessions[s].isPlaying THEN TRUE ELSE w.clock.shouldAnimate]

\* Mutant: destroy() that leaves the tick handler subscribed.
destroyReplayKeepsHandler(w, s, chinaTime) ==
  IF ~w.sessions[s].hasPlayed THEN w
  ELSE LET id == w.sessions[s].droneId IN
       [w EXCEPT
          !.sessions[s].isPlaying = FALSE,
          !.sessions[s].hasPlayed = FALSE,
          !.clock.currentTime = chinaTime,
          !.clock.shouldAnimate = TRUE,
          !.clock.clockRange = "UNBOUNDED",
          !.trails = clearDroneTrail(w.trails, id),
          !.graphicMap[id] = 0]

\* Mutant: destroy() that does not reset the played flag.
destroyReplayKeepsPlayed(w, s, chinaTime) ==
  IF ~w.sessions[s].hasPlayed THEN w
  ELSE LET id == w.sessions[s].droneId IN
       [w EXCEPT
          !.sessions[s].isPlaying = FALSE,
          !.clock.currentTime = chinaTime,
          !.clock.shouldAnimate = TRUE,
          !.clock.clockRange = "UNBOUNDED",
          !.trails = clearDroneTrail(w.trails, id),
          !.graphicMap[id] = 0,
          !.onTick = RemoveListener(w.onTick, w.sessions[s].tickHandler)]

\* chinaTime: the wall clock's time of the call, shifted by eight hours.
destroyReplay(w, s, chinaTime) ==
  IF ~w.sessions[s].hasPlayed THEN w
  ELSE LET id == w.sessions[s].droneId IN
       [w EXCEPT
          !.sessions[s].isPlaying = FALSE,
          !.sessions[s].hasPlayed = FALSE,
          !.clock.currentTime = chinaTime,
          !.clock.shouldAnimate = TRUE,
          !.clock.clockRange = "UNBOUNDED",
          !.trails = clearDroneTrail(w.trails, id),
          !.graphicMap[id] = 0,
          !.onTick = RemoveListener(w.onTick, w.sessions[s].tickHandler)]

\* Mutant: a window set around the clock's current time, left where it is.
configureClockKeepsTime(w, startTime, endTime, speed, loop) ==
  IF ~w.map THEN w ELSE
  [w EXCEPT !.clock =
     [currentTime |-> w.clock.currentTime, startTime |-> startTime,
      stopTime |-> endTime, multiplier |-> speed,
      clockRange |-> IF loop THEN "LOOP_STOP" ELSE "CLAMPED",
      shouldAnimate |-> TRUE]]

configureClock(w, startTime, endTime, speed, loop) ==
  IF ~w.map THEN w ELSE
  [w EXCEPT !.clock =
     [currentTime |-> startTime, startTime |-> startTime,
      stopTime |-> endTime, multiplier |-> speed,
      clockRange |-> IF loop THEN "LOOP_STOP" ELSE "CLAMPED",
      shouldAnimate |-> TRUE]]

\* ------------------------------------------------------------- the inputs
wp(p, t) == [position |-> p, timestamp |-> t]

\* The options offered to replayDronePath: data in order from time 0, data
\* out of order from time 1 with two waypoints at that time and two
\* successive waypoints at one position (played faster and looping), data
\* too short to replay and no data. Sorted, the timestamps are
\* at most one second apart, as the clock's times are, so that a replay
\* curve is read at its samples.
ReplayOptions ==
  { [replayData |-> <<wp(0, 0), wp(2, 1), wp(1, 2)>>,
     speed |-> 1, loop |-> FALSE],
    [replayData |-> <<wp(2, 2), wp(0, 1), wp(2, 1)>>,
     speed |-> 2, loop |-> TRUE],
    [replayData |-> <<wp(1, 0)>>, speed |-> 1, loop |-> FALSE],
    [replayData |-> <<>>, speed |-> 1, loop |-> FALSE] }

\* The windows offered to configureClock: clamped from time 0, looping
\* from time 1; both end one second before the last time.
ClockWindows ==
  { [startTime |-> 0, loop |-> FALSE], [startTime |-> 1, loop |-> TRUE] }

\* The offsets offered to seek: the start of the window, two seconds in.
SeekTimes == {0, 2}

\* The wall-clock times (shifted by eight hours) destroy() finds.
WallTimes == {1}

Positions == 0..MaxPos
Times == 0..MaxTime
TrailTimes == {NoTrailTime, 2}

FlightsStarted == (nextLid - 1 - Len(sessions)) \div 2

Op(op, sid, id, arg, flag) ==
  [op |-> op, sid |-> sid, id |-> id, arg |-> arg, flag |-> flag]

WasPlaying(s) == IF sessions[s].isPlaying THEN 1 ELSE 0

\* ------------------------------------------------------------ the actions
Apply(w) ==
  /\ \A id \in Ids : Len(w.trails[id].positions) <= MaxTrail
  /\ map' = w.map
  /\ replayData' = w.replayData
  /\ clock' = w.clock
  /\ onTick' = w.onTick
  /\ graphicMap' = w.graphicMap
  /\ objs' = w.objs
  /\ trails' = w.trails
  /\ sessions' = w.sessions
  /\ trailTime' = w.trailTime
  /\ nextLid' = w.nextLid
  /\ atLoad' = [s \in 1..Len(w.sessions) |->
                  IF s <= Len(atLoad) THEN atLoad[s]
                  ELSE EntityValue(w.objs[w.sessions[s].droneEntity],
                                   w.sessions[s].first.timestamp)]
  /\ shrunk' = {id \in Ids : Len(w.trails[id].positions)
                                < Len(trails[id].positions)}

Init ==
  /\ map \in BOOLEAN
  /\ replayData = <<>>
  /\ clock = [currentTime |-> 0, startTime |-> 0, stopTime |-> 86400,
              multiplier |-> 1, shouldAnimate |-> FALSE,
              clockRange |-> "UNBOUNDED"]
  /\ onTick = <<>>
  /\ graphicMap = [id \in Ids |-> 0]
  /\ objs = <<>>
  /\ trails = [id \in Ids |-> NoTrail]
  /\ sessions = <<>>
  /\ trailTime \in TrailTimes
  /\ nextLid = 1
  /\ phase = <<>>
  /\ lastOp = Op("init", 0, "", 0, FALSE)
  /\ atLoad = <<>>
  /\ shrunk = {}

\* moveDronePoint({pointId: id, lng/lat/height: target, speed})
MoveTo(id, target, speed) ==
  /\ IF graphicMap[id] = 0
       THEN Len(objs) < MaxObjs
       ELSE LET d == Distance(CurrentRealPosition(World, graphicMap[id]),
                              target)
            IN d > 0 => /\ FlightsStarted < MaxFlights
                        /\ d % speed = 0
                        /\ clock.currentTime + (d \div speed) <= MaxTime
  /\ Apply(moveDronePoint(World, id, target, speed))
  /\ lastOp' = [op |-> "move", sid |-> 0, id |-> id, arg |-> target,
                 flag |-> graphicMap[id] # 0 /\ objs[graphicMap[id]].isFlying,
                 speed |-> speed]
  /\ UNCHANGED phase

\* One frame of the scene: Clock.tick.
Tick ==
  /\ ClockAdvance(clock).currentTime <= MaxTime
  /\ Apply(tick(World))
  /\ lastOp' = Op("tick", 0, "", 0, FALSE)
  /\ UNCHANGED phase

\* replayDronePath({droneId: id, replayData: data, speed, loop}); the
\* history keeps the array as it was passed, whether the drone had a trail
\* at the call, and the controller returned (0: none).
LoadAny(id, data, speed, loop) ==
  /\ graphicMap[id] = 0 => Len(objs) < MaxObjs
  /\ Apply(replayDronePath([World EXCEPT !.replayData = data],
                           id, data, speed, loop))
  /\ lastOp' = Op("load",
                  IF Len(sessions') > Len(sessions) THEN Len(sessions') ELSE 0,
                  id, data, trails[id].exists)
  /\ phase' = [s \in 1..Len(sessions') |->
                 IF s <= Len(phase) THEN phase[s] ELSE "ready"]

Load(id, data, speed, loop) ==
  /\ Len(sessions) < MaxSessions
  /\ LoadAny(id, data, speed, loop)

Play(s) ==
  /\ Apply(playReplay(World, s))
  /\ lastOp' = Op("play", s, sessions[s].droneId, WasPlaying(s),
                  phase[s] = "played")
  /\ phase' = [phase EXCEPT ![s] = "played"]

Continue(s) ==
  /\ Apply(continueReplay(World, s))
  /\ lastOp' = Op("continue", s, sessions[s].droneId, WasPlaying(s),
                  phase[s] = "played")
  /\ UNCHANGED phase

Pause(s) ==
  /\ Apply(pauseReplay(World, s))
  /\ lastOp' = Op("pause", s, sessions[s].droneId, WasPlaying(s),
                  phase[s] = "played")
  /\ UNCHANGED phase

Stop(s) ==
  /\ Apply(stopReplay(World, s))
  /\ lastOp' = Op("stop", s, sessions[s].droneId, 0, phase[s] = "played")
  /\ UNCHANGED phase

Seek(s, time) ==
  /\ clock.startTime + time <= MaxTime
  /\ Apply(seekReplay(World, s, time))
  /\ lastOp' = Op("seek", s, sessions[s].droneId, time,
                  phase[s] = "played")
  /\ UNCHANGED phase

Destroy(s, chinaTime) ==
  /\ Apply(destroyReplay(World, s, chinaTime))
  /\ lastOp' = Op("destroy", s, sessions[s].droneId, chinaTime,
                  phase[s] = "played")
  /\ phase' = [phase EXCEPT
                 ![s] = IF phase[s] = "played" THEN "destroyed" ELSE @]

ConfigureClock(startTime, endTime, speed, loop) ==
  /\ Apply(configureClock(World, startTime, endTime, speed, loop))
  /\ lastOp' = [op |-> "configureClock", sid |-> 0, id |-> "",
                 arg |-> startTime, flag |-> loop,
                 endTime |-> endTime, speed |-> speed]
  /\ UNCHANGED phase

\* ------------------------------------------------------ the specifications
Transport ==
  \E s \in 1..Len(sessions) :
     \/ Play(s)
     \/ Continue(s)
     \/ Pause(s)
     \/ Stop(s)
     \/ \E time \in SeekTimes : Seek(s, time)
     \/ \E chinaTime \in WallTimes : Destroy(s, chinaTime)

Loads ==
  \E id \in Drones, options \in ReplayOptions :
     Load(id, options.replayData, options.speed, options.loop)

Moves ==
  \E id \in Drones, target \in Positions, speed \in Speeds :
     MoveTo(id, target, speed)

Windows ==
  \E window \in ClockWindows :
     ConfigureClock(window.startTime, MaxTime - 1, 1, window.loop)

\* Live motion alone.
NextMove == Moves \/ Tick
SpecMove == Init /\ [][NextMove]_vars

\* Live motion with the frames of the scene delivered: a tick that can be
\* taken, and changes the state, is eventually taken (weak fairness of
\* Tick, with its enabling condition written out).
TickEnabled ==
  LET w == tick(World)
  IN /\ ClockAdvance(clock).currentTime <= MaxTime
     /\ \A id \in Ids : Len(w.trails[id].positions) <= MaxTrail
     /\ \/ w # World
        \/ lastOp # Op("tick", 0, "", 0, FALSE)
        \/ shrunk # {id \in Ids : Len(w.trails[id].positions)
                                    < Len(trails[id].positions)}

FramesDelivered == []<>(~TickEnabled) \/ []<><<Tick>>_vars

SpecFlight == SpecMove /\ FramesDelivered

\* Replay alone; no trail point is recorded, whatever the retention.
InitReplay == Init /\ trailTime = NoTrailTime
NextReplay == Loads \/ Transport \/ Windows \/ Tick
SpecReplay == InitReplay /\ [][NextReplay]_vars

\* Live motion and replay of the same drone on the one shared clock: the
\* moves at speed 1 between the two ends of the line, one replay of the
\* data in order. The drone is moved before its replay is loaded and after
\* the replay is destroyed; the listeners of its flights stay subscribed
\* in between.
SharedMoves ==
  /\ \A s \in 1..Len(sessions) : phase[s] = "destroyed"
  /\ \E id \in Drones, target \in {0, MaxPos} : MoveTo(id, target, 1)

SharedLoads ==
  \E id \in Drones :
     Load(id, <<wp(0, 0), wp(2, 1), wp(1, 2)>>, 1, FALSE)

Next == SharedMoves \/ SharedLoads \/ Transport \/ Tick
Spec == InitReplay /\ [][Next]_vars

\* The entry points with their preconditions, on a scene with or without
\* a map: the clock window is configured on the empty scene, the drone is
\* moved (at speed 1, between the two ends of the line) until its replay
\* is loaded, so that the load finds it with or without a trail, flying
\* or not.
IngestWindows == objs = <<>> /\ Windows

IngestMoves ==
  /\ sessions = <<>>
  /\ \E id \in Drones, target \in {0, MaxPos} : MoveTo(id, target, 1)

NextIngest == IngestMoves \/ Loads \/ IngestWindows \/ Tick
SpecIngest == Init /\ [][NextIngest]_vars

\* Live motion with a move whose longitude is NaN. The library raises on
\* it or computes with it, as it was built; what the program does after
\* such a move is not followed.
InvalidMove(id, speed, checked) ==
  /\ graphicMap[id] = 0 => Len(objs) < MaxObjs
  /\ graphicMap[id] # 0 => FlightsStarted < MaxFlights
  /\ Apply(IF checked THEN moveDronePointRaising(World, id)
                      ELSE moveDronePoint(World, id, NaN, speed))
  /\ lastOp' = [op |-> "move", sid |-> 0, id |-> id, arg |-> NaN,
                 flag |-> graphicMap[id] # 0 /\ objs[graphicMap[id]].isFlying,
                 speed |-> speed]
  /\ UNCHANGED phase

InvalidMoves ==
  \E id \in Drones, speed \in Speeds, checked \in BOOLEAN :
     InvalidMove(id, speed, checked)

Valid == lastOp.arg # NaN

NextInvalid == (Valid /\ Moves) \/ (Valid /\ Tick) \/ (Valid /\ InvalidMoves)
SpecInvalid == Init /\ [][NextInvalid]_vars

\* The life of a trail: the drone is moved, with or without a retention
\* window, until its replay is loaded; the replay is then played, sought,
\* stopped and destroyed.
GrowingMoves == sessions = <<>> /\ Moves

NextGrowth == GrowingMoves \/ Loads \/ Transport \/ Tick
SpecGrowth == Init /\ [][NextGrowth]_vars

\* A replay loaded over live motion and left alone: the drone is moved
\* until a replay is loaded for its id, and then only the frames of the
\* scene follow. The data offered run along the line and back, so that
\* the ends of a replay are further apart than the minimum distance of the
\* trail.
OverlapData ==
  { <<wp(0, 0), wp(1, 1), wp(2, 2)>>,
    <<wp(2, 1), wp(0, 2)>>,
    <<wp(1, 0)>> }

OverlapLoads ==
  \E id \in Drones, data \in OverlapData : Load(id, data, 1, FALSE)

NextOverlap == GrowingMoves \/ OverlapLoads \/ Tick
SpecOverlap == Init /\ [][NextOverlap]_vars

\* moveDroneTrail on its own: the trails it may find in the store (none,
\* an empty one, trails of one to three points), at any time of the clock,
\* with and without a retention window.
TrailInputs ==
  { <<>>, <<wp(0, 0)>>, <<wp(1, 1)>>, <<wp(0, 0), wp(2, 1)>>,
    <<wp(2, 0), wp(0, 2)>>, <<wp(0, 0), wp(2, 1), wp(0, 3)>> }

TrailOf(pts) ==
  [exists |-> TRUE, positions |-> pts,
   lastUpdateTime |-> IF pts = <<>> THEN 0 ELSE pts[Len(pts)].timestamp]

InitTrail ==
  /\ map \in BOOLEAN
  /\ replayData = <<>>
  /\ \E now \in Times :
        clock = [currentTime |-> now, startTime |-> 0, stopTime |-> 86400,
                 multiplier |-> 1, shouldAnimate |-> FALSE,
                 clockRange |-> "UNBOUNDED"]
  /\ onTick = <<>>
  /\ graphicMap = [id \in Ids |-> 0]
  /\ objs = <<>>
  /\ \E tr \in {NoTrail} \cup {TrailOf(pts) : pts \in TrailInputs} :
        trails = [id \in Ids |-> IF id \in Drones THEN tr ELSE NoTrail]
  /\ sessions = <<>>
  /\ trailTime \in TrailTimes
  /\ nextLid = 1
  /\ phase = <<>>
  /\ lastOp = Op("init", 0, "", 0, FALSE)
  /\ atLoad = <<>>
  /\ shrunk = {}

\* moveDroneTrail(id, pos); the history keeps whether the store held a
\* trail of the drone at the call.
RecordPoint(id, pos) ==
  /\ Apply(Trail(World, id, pos))
  /\ lastOp' = Op("record", 0, id, pos, trails[id].exists)
  /\ UNCHANGED phase

NextTrail == \E id \in Drones, pos \in Positions : RecordPoint(id, pos)
SpecTrail == InitTrail /\ [][NextTrail]_vars

\* Two drones replayed on the one clock, as the replay panel does it: the
\* trajectory of A runs from time 0 to one second before the end of the
\* window, the trajectory of B, one second later, to its end. Both are
\* loaded with speed 1 and loop = false, then the window is configured,
\* then the sessions are played (and paused, and continued) before the
\* clock reaches the end of the window.
Trajectory(id) ==
  [i \in 1..MaxTime |->
     IF id = "A" THEN wp((i - 1) % (MaxPos + 1), i - 1)
                 ELSE wp(i % (MaxPos + 1), i)]

SessionOf(id) == {s \in 1..Len(sessions) : sessions[s].droneId = id}

WindowConfigured ==
  /\ \A id \in Ids : SessionOf(id) # {}
  /\ lastOp.op # "load"

ScenarioLoad(id) ==
  /\ SessionOf(id) = {}
  /\ LoadAny(id, Trajectory(id), 1, FALSE)

ScenarioWindow ==
  /\ \A id \in Ids : SessionOf(id) # {}
  /\ lastOp.op = "load"
  /\ ConfigureClock(0, MaxTime, 1, FALSE)

ScenarioTransport ==
  /\ WindowConfigured
  /\ clock.currentTime < clock.stopTime
  /\ \E s \in 1..Len(sessions) : Play(s) \/ Pause(s) \/ Continue(s)

ScenarioTick == WindowConfigured /\ Tick

NextScenario ==
  \/ \E id \in Ids : ScenarioLoad(id)
  \/ ScenarioWindow
  \/ ScenarioTransport
  \/ ScenarioTick
SpecScenario == InitReplay /\ [][NextScenario]_vars

\* ---------------------------------------------------------------- claims
ProgramState == <<clock, onTick, graphicMap, objs, trails, sessions>>

IsPlaying(s) == sessions[s].isPlaying

\* The listeners of kind k that drone object o has on the clock tick.
ListenersOf(o, k) ==
  {i \in 1..Len(onTick) : onTick[i].kind = k /\ onTick[i].obj = o}

\* The drone object a move was addressed to.
Moved == graphicMap[lastOp.id]

\* A move that found the drone flying and started a new flight.
Preempted ==
  /\ lastOp.op = "move"
  /\ lastOp.flag
  /\ Moved # 0
  /\ objs[Moved].isFlying

C2_OneCompletionListener ==
  Preempted => Cardinality(ListenersOf(Moved, "end")) = 1

\* The third flight of a drone, started while the second, which had
\* preempted the first, was still under way.
C2_Witness ==
  /\ Preempted
  /\ FlightsStarted >= 3
  /\ Cardinality(ListenersOf(Moved, "trail")) >= 3

\* C3: when a moveTo preempts a flight, every tick listener of the previous
\* flight (trail update and completion) is unsubscribed, so that only the
\* new flight's two listeners are subscribed for the drone.
C3_OnlyNewListeners ==
  Preempted =>
    \A i \in ListenersOf(Moved, "trail") \cup ListenersOf(Moved, "end") :
       onTick[i].lid >= nextLid - 2

\* C4: whenever a registered drone is not flying, no tick listener that a
\* moveTo installed for it is still subscribed.
C4_NoStaleListener ==
  \A id \in Ids :
     (graphicMap[id] # 0 /\ ~objs[graphicMap[id]].isFlying)
       => ListenersOf(graphicMap[id], "trail")
            \cup ListenersOf(graphicMap[id], "end") = {}

\* C5: destroy() on a played session leaves isPlaying false, the clock
\* unbounded and running, the session's trail out of the trail store, its
\* drone out of the registry and its tick handler unsubscribed.
C5_DestroyTearsDown ==
  (lastOp.op = "destroy" /\ lastOp.flag) =>
     /\ ~IsPlaying(lastOp.sid)
     /\ clock.clockRange = "UNBOUNDED"
     /\ clock.shouldAnimate
     /\ ~trails[lastOp.id].exists
     /\ graphicMap[lastOp.id] = 0
     /\ ~Subscribed(onTick, sessions[lastOp.sid].tickHandler)

\* A destroy() that took effect.
C5_Witness ==
  /\ lastOp.op = "destroy"
  /\ lastOp.flag
  /\ phase[lastOp.sid] = "destroyed"
  /\ clock.currentTime = lastOp.arg

\* C6: a destroy() on a controller that was destroyed and not played since
\* changes nothing.
C6_DestroyTwice ==
  [][(lastOp'.op = "destroy" /\ phase[lastOp'.sid] = "destroyed")
     => UNCHANGED ProgramState]_vars

\* A second destroy(), called with another wall-clock time than the one
\* the first destroy() left in the clock.
C6_Witness ==
  /\ lastOp.op = "destroy"
  /\ ~lastOp.flag
  /\ phase[lastOp.sid] = "destroyed"
  /\ clock.currentTime # lastOp.arg

\* C7: once destroy() has taken effect on a controller, no later play(),
\* pause(), continue(), stop() or seek() changes its isPlaying or a field
\* of the clock.
C7_DestroyedIsTerminal ==
  [][(/\ lastOp'.op \in {"play", "pause", "continue", "stop", "seek"}
      /\ phase[lastOp'.sid] = "destroyed")
     => /\ clock' = clock
        /\ sessions'[lastOp'.sid].isPlaying = IsPlaying(lastOp'.sid)]_vars

\* C8 as claimed: after stop() on a played session the clock is halted,
\* isPlaying is false, the current time is the timestamp of the session's
\* earliest waypoint and the drone is at its first waypoint.
C8_StopRewindsToFirstWaypoint ==
  (lastOp.op = "stop" /\ lastOp.flag) =>
     /\ ~clock.shouldAnimate
     /\ ~IsPlaying(lastOp.sid)
     /\ clock.currentTime = sessions[lastOp.sid].first.timestamp
     /\ EntityValue(objs[sessions[lastOp.sid].droneEntity],
                    clock.currentTime)
          = sessions[lastOp.sid].first.position

\* C8 amended: after stop() on a played session the clock is halted,
\* isPlaying is false, the current time is the clock's start bound and the
\* drone object of the session is at the session's first waypoint.
C8_StopRewindsToClockStart ==
  (lastOp.op = "stop" /\ lastOp.flag) =>
     /\ ~clock.shouldAnimate
     /\ ~IsPlaying(lastOp.sid)
     /\ clock.currentTime = clock.startTime
     /\ EntityValue(objs[sessions[lastOp.sid].droneEntity],
                    clock.currentTime)
          = sessions[lastOp.sid].first.position

\* A stop() of a played session whose first waypoint is later than the
\* clock's start bound.
C8_Witness ==
  /\ lastOp.op = "stop"
  /\ lastOp.flag
  /\ clock.startTime # sessions[lastOp.sid].first.timestamp
  /\ clock.currentTime = clock.startTime

\* C9 as claimed: seek(s) on a played session sets the current time to the
\* timestamp of the session's earliest waypoint plus s seconds.
C9_SeekFromFirstWaypoint ==
  (lastOp.op = "seek" /\ lastOp.flag) =>
     clock.currentTime = sessions[lastOp.sid].first.timestamp + lastOp.arg

\* C9 amended: seek(s) on a played session sets the current time to the
\* clock's start bound plus s seconds and leaves isPlaying unchanged; the
\* clock runs afterwards when the session is playing, and keeps its
\* running flag when it is not.
C9_SeekFromClockStart ==
  [][(lastOp'.op = "seek" /\ lastOp'.flag) =>
       /\ clock'.currentTime = clock.startTime + lastOp'.arg
       /\ sessions'[lastOp'.sid].isPlaying = IsPlaying(lastOp'.sid)
       /\ IsPlaying(lastOp'.sid) => clock'.shouldAnimate
       /\ ~IsPlaying(lastOp'.sid)
            => clock'.shouldAnimate = clock.shouldAnimate]_vars

\* A seek into the timeline of a playing session.
C9_Witness ==
  /\ lastOp.op = "seek"
  /\ lastOp.flag
  /\ lastOp.arg > 0
  /\ IsPlaying(lastOp.sid)
  /\ clock.currentTime = clock.startTime + lastOp.arg

\* C10: right after seek(t), a second seek(t) leaves the clock's current
\* time, and with it the drone's interpolated position, as the first left
\* them.
C10_SeekIdempotent ==
  lastOp.op = "seek" =>
     LET again == seekReplay(World, lastOp.sid, lastOp.arg)
         o == sessions[lastOp.sid].droneEntity
     IN /\ again.clock.currentTime = clock.currentTime
        /\ EntityValue(again.objs[o], again.clock.currentTime)
             = EntityValue(objs[o], clock.currentTime)
        /\ again = World

\* A seek of a played session to a time at which its drone has a position
\* away from the start of the timeline.
C10_Witness ==
  /\ lastOp.op = "seek"
  /\ lastOp.flag
  /\ lastOp.arg > 0
  /\ clock.currentTime > clock.startTime
  /\ EntityValue(objs[sessions[lastOp.sid].droneEntity], clock.currentTime)
       # Undef

\* The drone object of a session and its position at the current time.
DroneOf(s) == sessions[s].droneEntity

PositionOf(s) == EntityValue(objs[DroneOf(s)], clock.currentTime)

\* C11: for a session loaded and played, a stop() followed by a play()
\* leaves the session's drone at the position it had right after the load
\* (its first waypoint, at the time of the first waypoint).
C11_StopPlayRoundTrip ==
  [][(/\ lastOp.op = "stop" /\ lastOp.flag
      /\ lastOp'.op = "play" /\ lastOp'.sid = lastOp.sid)
     => EntityValue(objs'[DroneOf(lastOp.sid)], clock'.currentTime)
          = atLoad[lastOp.sid]]_vars

\* The round trip from a load of waypoints with distinct timestamps: the
\* stop() puts the drone at the first waypoint, where the load had it.
C11_RoundTripDistinctTimes ==
  [][(/\ lastOp.op = "stop" /\ lastOp.flag
      /\ lastOp'.op = "play" /\ lastOp'.sid = lastOp.sid
      /\ Len(objs[DroneOf(lastOp.sid)].prop)
           = Len(trails[lastOp.id].positions))
     => EntityValue(objs'[DroneOf(lastOp.sid)], clock'.currentTime)
          = atLoad[lastOp.sid]]_vars

\* C12: pause() on a played session that is playing halts the clock and
\* sets isPlaying to false, the current time staying as it was; on a played
\* session that is not playing it changes nothing.
C12_PauseOnlyWhilePlaying ==
  [][(lastOp'.op = "pause" /\ lastOp'.flag) =>
       IF IsPlaying(lastOp'.sid)
         THEN /\ clock' = [clock EXCEPT !.shouldAnimate = FALSE]
              /\ ~sessions'[lastOp'.sid].isPlaying
         ELSE UNCHANGED ProgramState]_vars

\* A pause() of a playing session in the middle of its timeline.
C12_Witness ==
  /\ lastOp.op = "pause" /\ lastOp.flag /\ lastOp.arg = 1
  /\ ~IsPlaying(lastOp.sid)
  /\ ~clock.shouldAnimate
  /\ clock.currentTime > clock.startTime

\* C13 as claimed: continue() on a played session that is not playing sets
\* the clock running and isPlaying to true, the clock's current time and
\* multiplier staying as they were when the clock was halted; on a playing
\* session it changes nothing.
C13_ContinueKeepsRate ==
  [][(lastOp'.op = "continue" /\ lastOp'.flag) =>
       IF ~IsPlaying(lastOp'.sid)
         THEN /\ clock' = [clock EXCEPT !.shouldAnimate = TRUE]
              /\ sessions'[lastOp'.sid].isPlaying
         ELSE UNCHANGED ProgramState]_vars

\* C13 amended: continue() on a played session that is not playing sets
\* the clock running, isPlaying to true and the clock's multiplier to the
\* session's speed, the current time staying as it was; on a playing
\* session it changes nothing.
C13_ContinueSetsSpeed ==
  [][(lastOp'.op = "continue" /\ lastOp'.flag) =>
       IF ~IsPlaying(lastOp'.sid)
         THEN /\ clock' = [clock EXCEPT
                             !.shouldAnimate = TRUE,
                             !.multiplier = sessions[lastOp'.sid].speed]
              /\ sessions'[lastOp'.sid].isPlaying
         ELSE UNCHANGED ProgramState]_vars

\* A continue() of a paused session in the middle of its timeline, whose
\* speed is not the multiplier the clock was configured with.
C13_Witness ==
  /\ lastOp.op = "continue" /\ lastOp.flag /\ lastOp.arg = 0
  /\ IsPlaying(lastOp.sid)
  /\ clock.shouldAnimate
  /\ clock.currentTime > clock.startTime
  /\ clock.multiplier = sessions[lastOp.sid].speed
  /\ clock.multiplier # 1

\* C14: play() on a session that is not playing sets the clock running,
\* isPlaying to true and the played flag, which opens pause(), continue(),
\* stop(), seek() and destroy(); on a playing session it changes nothing.
C14_PlayStarts ==
  [][lastOp'.op = "play" =>
       IF ~IsPlaying(lastOp'.sid)
         THEN /\ clock' = [clock EXCEPT !.shouldAnimate = TRUE]
              /\ sessions'[lastOp'.sid].isPlaying
              /\ sessions'[lastOp'.sid].hasPlayed
              /\ pauseReplay(World', lastOp'.sid) # World'
              /\ destroyReplay(World', lastOp'.sid, clock.currentTime)
                   # World'
         ELSE UNCHANGED ProgramState]_vars

\* The first play() of a session, on a halted clock.
C14_Witness ==
  /\ lastOp.op = "play" /\ ~lastOp.flag /\ lastOp.arg = 0
  /\ phase[lastOp.sid] = "played"
  /\ IsPlaying(lastOp.sid)
  /\ clock.shouldAnimate

\* C15: play() on a session that was played and paused in the middle of
\* its timeline restarts the replay: the clock's current time is back at
\* the start (the clock's start bound, or the session's first waypoint).
C15_PlayRestarts ==
  [][(/\ lastOp'.op = "play" /\ lastOp'.flag
      /\ ~IsPlaying(lastOp'.sid)
      /\ lastOp.op = "pause"
      /\ clock.currentTime > clock.startTime)
     => clock'.currentTime \in {clock.startTime,
                                sessions[lastOp'.sid].first.timestamp}]_vars

\* C16: whenever a tick finds a session with loop = false playing and the
\* clock's current time at or past the clock's stop time, the session is
\* not playing and its tick handler is unsubscribed after the tick; the
\* tick never changes isPlaying of a session with loop = true.
C16_AutoCompletion ==
  [][lastOp'.op = "tick" =>
       \A s \in 1..Len(sessions) :
          /\ (/\ ~sessions[s].loop
              /\ IsPlaying(s)
              /\ clock'.currentTime >= clock'.stopTime)
             => /\ ~sessions'[s].isPlaying
                /\ ~Subscribed(onTick', sessions[s].tickHandler)
          /\ sessions[s].loop
               => sessions'[s].isPlaying = IsPlaying(s)]_vars

\* Both sessions of the two-drone scenario were played and a tick has
\* brought the clock to the end of the window.
ScenarioPlayedOut ==
  /\ Len(sessions) = 2
  /\ \A s \in 1..Len(sessions) : phase[s] = "played"
  /\ lastOp.op = "tick"
  /\ clock.currentTime = clock.stopTime

\* C17: in the two-drone scenario (A recorded up to one second before the
\* end of the window, B up to its end, both with loop = false, both
\* played), once the clock has advanced to the end of the window each
\* drone is at its last waypoint and no session is playing.
C17_BothAtFinalWaypoint ==
  ScenarioPlayedOut =>
     \A s \in 1..Len(sessions) :
        /\ PositionOf(s) = Trajectory(sessions[s].droneId)[MaxTime].position
        /\ ~IsPlaying(s)

\* The part of C17 on the controllers: no session is playing.
C17_NonePlaying ==
  ScenarioPlayedOut => \A s \in 1..Len(sessions) : ~IsPlaying(s)

\* C18: a load with fewer than two waypoints (or none), and a load, a move
\* and a clock configuration on a scene without a map, create no drone and
\* no trail, subscribe no listener and change no field of the clock.
C18_AbortLeavesState ==
  [][(\/ lastOp'.op = "load" /\ (Len(lastOp'.arg) < 2 \/ ~map)
      \/ lastOp'.op \in {"move", "configureClock"} /\ ~map)
     => UNCHANGED ProgramState]_vars

\* A load of a single waypoint on a scene with a map, whose clock runs: a
\* load that went through would have created the drone and halted the
\* clock.
C18_Witness ==
  /\ lastOp.op = "load" /\ Len(lastOp.arg) = 1
  /\ map
  /\ clock.shouldAnimate
  /\ graphicMap[lastOp.id] = 0
  /\ sessions = <<>>

\* A load that returned a controller.
Loaded == lastOp.op = "load" /\ lastOp.sid # 0

Occurrences(seq, x) == Cardinality({i \in 1..Len(seq) : seq[i] = x})

\* C19: after a successful load, whatever the order of the waypoints and
\* whatever the trail held, the trail holds one point per waypoint passed,
\* in non-decreasing timestamp order, the samples of the position curve
\* are waypoints in increasing time order, and the caller's array is as it
\* was passed.
C19_LoadSortsIntoTrail ==
  Loaded =>
    LET data == lastOp.arg
        pts == trails[lastOp.id].positions
        curve == objs[DroneOf(lastOp.sid)].prop
    IN /\ Len(pts) = Len(data)
       /\ \A i \in 1..Len(data) :
             Occurrences(pts, data[i]) = Occurrences(data, data[i])
       /\ \A i, j \in 1..Len(pts) :
             i < j => pts[i].timestamp <= pts[j].timestamp
       /\ \A i, j \in 1..Len(curve) : i < j => curve[i].t < curve[j].t
       /\ \A i \in 1..Len(curve) :
             \E j \in 1..Len(pts) : wp(curve[i].p, curve[i].t) = pts[j]
       /\ {curve[i].t : i \in 1..Len(curve)}
            = {data[i].timestamp : i \in 1..Len(data)}
       /\ replayData = data

\* A load of waypoints passed out of time order for a drone that had a
\* trail of its flights.
C19_Witness ==
  /\ Loaded
  /\ lastOp.flag
  /\ FlightsStarted > 0
  /\ \E i, j \in 1..Len(lastOp.arg) :
        i < j /\ lastOp.arg[i].timestamp > lastOp.arg[j].timestamp

\* C20: after a successful load of waypoints of which several share a
\* timestamp, the position curve holds one sample at that timestamp, with
\* the position of the last of them in the caller's order.
C20_LastDuplicateWins ==
  Loaded =>
    LET data == lastOp.arg
        curve == objs[DroneOf(lastOp.sid)].prop
    IN \A i \in 1..Len(data) :
          LET same == {j \in 1..Len(data) :
                         data[j].timestamp = data[i].timestamp}
              last == CHOOSE j \in same : \A k \in same : k <= j
              at == {k \in 1..Len(curve) : curve[k].t = data[i].timestamp}
          IN /\ Cardinality(at) = 1
             /\ \A k \in at : curve[k].p = data[last].position

\* A load of two waypoints of one timestamp and different positions.
C20_Witness ==
  /\ Loaded
  /\ \E i, j \in 1..Len(lastOp.arg) :
        /\ i < j
        /\ lastOp.arg[i].timestamp = lastOp.arg[j].timestamp
        /\ lastOp.arg[i].position # lastOp.arg[j].position
  /\ Len(objs[DroneOf(lastOp.sid)].prop) < Len(lastOp.arg)

\* C21: no operation of a replay session (load, play, pause, continue,
\* stop, seek, destroy, tick handler) writes the clock's start or stop
\* bound; of the replay operations only configureClock does.
C21_SessionsKeepWindow ==
  [][lastOp'.op # "configureClock"
     => /\ clock'.startTime = clock.startTime
        /\ clock'.stopTime = clock.stopTime]_vars

\* A play() under a window configured to start before the session's first
\* waypoint and to end after the current time.
C21_Witness ==
  /\ lastOp.op = "play"
  /\ IsPlaying(lastOp.sid)
  /\ clock.clockRange # "UNBOUNDED"
  /\ clock.startTime # sessions[lastOp.sid].first.timestamp
  /\ clock.stopTime # clock.currentTime

\* C22: a move of an id the registry does not hold creates the drone at
\* the target with no flight: the drone is registered and not flying, the
\* tick subscriptions and the clock are as they were.
C22_MoveCreates ==
  [][(lastOp'.op = "move" /\ map /\ graphicMap[lastOp'.id] = 0) =>
       /\ graphicMap'[lastOp'.id] # 0
       /\ ~objs'[graphicMap'[lastOp'.id]].isFlying
       /\ EntityValue(objs'[graphicMap'[lastOp'.id]], clock'.currentTime)
            = lastOp'.arg
       /\ onTick' = onTick
       /\ clock' = clock]_vars

\* A move that created the drone away from the origin while the clock was
\* running in a configured window.
C22_Witness ==
  /\ lastOp.op = "move" /\ lastOp.arg > 0
  /\ Moved # 0
  /\ Len(objs[Moved].prop) = 1
  /\ FlightsStarted = 0
  /\ clock.shouldAnimate
  /\ clock.clockRange # "UNBOUNDED"
  /\ objs[Moved].currentPosition = lastOp.arg

RealPosition(o) ==
  IF EntityValue(objs[o], clock.currentTime) # Undef
    THEN EntityValue(objs[o], clock.currentTime)
    ELSE objs[o].currentPosition

\* A move of a registered drone, on a scene with a map.
MoveOfRegistered == lastOp'.op = "move" /\ map /\ graphicMap[lastOp'.id] # 0

\* C24: a move whose target is nearer than the threshold to the drone's
\* real position starts no flight: the drone is at the target and not
\* flying, the call subscribes no tick listener and leaves the clock's
\* bounds, range and running flag as they were.
C24_NearTargetNoFlight ==
  [][(/\ MoveOfRegistered
      /\ Distance(RealPosition(graphicMap[lastOp'.id]), lastOp'.arg) < 1)
     => LET o == graphicMap[lastOp'.id]
        IN /\ EntityValue(objs'[o], clock'.currentTime) = lastOp'.arg
           /\ objs'[o].currentPosition = lastOp'.arg
           /\ ~objs'[o].isFlying
           /\ nextLid' = nextLid
           /\ \A i \in 1..Len(onTick') : Subscribed(onTick, onTick'[i].lid)
           /\ clock'.startTime = clock.startTime
           /\ clock'.stopTime = clock.stopTime
           /\ clock'.clockRange = clock.clockRange
           /\ clock'.shouldAnimate = clock.shouldAnimate]_vars

\* A move to the position the drone is flying through: the flight under
\* way is cancelled and no new one begins.
C24_Witness ==
  /\ lastOp.op = "move" /\ lastOp.flag
  /\ Moved # 0
  /\ ~objs[Moved].isFlying
  /\ objs[Moved].flightEndListener = NoListener
  /\ clock.stopTime > clock.currentTime
  /\ EntityValue(objs[Moved], clock.currentTime) = lastOp.arg

\* C25: after a move that starts a flight the clock is running, its range
\* is unbounded, its start bound is the current time of the call and its
\* stop bound the end time of the flight, whatever the window was.
C25_FlightSetsWindow ==
  [][(/\ MoveOfRegistered
      /\ Distance(RealPosition(graphicMap[lastOp'.id]), lastOp'.arg) >= 1)
     => /\ clock'.shouldAnimate
        /\ clock'.clockRange = "UNBOUNDED"
        /\ clock'.startTime = clock.currentTime
        /\ clock'.stopTime =
             clock.currentTime
               + (Distance(RealPosition(graphicMap[lastOp'.id]), lastOp'.arg)
                    \div lastOp'.speed)]_vars

\* The first flight of a drone, started after the clock had run in a
\* window set by configureClock.
C25_Witness ==
  /\ lastOp.op = "move"
  /\ Moved # 0
  /\ objs[Moved].isFlying
  /\ FlightsStarted = 1
  /\ clock.currentTime > 0
  /\ clock.startTime = clock.currentTime
  /\ clock.stopTime > clock.currentTime
  /\ clock.clockRange = "UNBOUNDED"

\* The completion listener a drone object has stored, as subscribed.
StoredListener(o) ==
  CHOOSE l \in {onTick[i] : i \in 1..Len(onTick)} :
     l.lid = objs[o].flightEndListener

LastPoint(tr) == tr.positions[Len(tr.positions)]

\* What the completion listener of drone object o does at a tick, but for
\* the trail: at or past the end time of the flight the drone is not
\* flying, its currentPosition is the target, the curve holds the target at
\* a time after the end of the flight, both listeners of the flight are
\* unsubscribed and the stored reference is cleared; before the end time
\* all of these are as they were.
CompletionStep(o) ==
  LET l == StoredListener(o)
  IN IF clock'.currentTime >= l.endTime
       THEN /\ ~objs'[o].isFlying
            /\ objs'[o].currentPosition = l.target
            /\ \E i \in 1..Len(objs'[o].prop) :
                  /\ objs'[o].prop[i].t > l.endTime
                  /\ objs'[o].prop[i].p = l.target
            /\ ~Subscribed(onTick', l.lid)
            /\ ~Subscribed(onTick', l.peer)
            /\ objs'[o].flightEndListener = NoListener
       ELSE /\ objs'[o].isFlying = objs[o].isFlying
            /\ objs'[o].currentPosition = objs[o].currentPosition
            /\ objs'[o].prop = objs[o].prop
            /\ Subscribed(onTick', l.lid)
            /\ Subscribed(onTick', l.peer)
            /\ objs'[o].flightEndListener = objs[o].flightEndListener

\* C26: at the first tick at or past the end time of a flight that was
\* not preempted, the completion listener clears the flying flag, sets
\* currentPosition to the target, records the target into the trail,
\* anchors the curve at the target after the end of the flight,
\* unsubscribes the trail listener and itself and clears the stored
\* reference; at a tick before the end time it changes none of these.
C26_FlightCompletion ==
  [][lastOp'.op = "tick" =>
       \A o \in 1..Len(objs) :
          objs[o].flightEndListener # NoListener =>
            /\ CompletionStep(o)
            /\ clock'.currentTime >= StoredListener(o).endTime
                 => LastPoint(trails'[objs[o].id]).position
                      = StoredListener(o).target]_vars

\* The completion of a flight but for the recording of the target: the
\* trail's last point is within the minimum distance of the target.
C26_CompletionNearTrailEnd ==
  [][lastOp'.op = "tick" =>
       \A o \in 1..Len(objs) :
          objs[o].flightEndListener # NoListener =>
            /\ CompletionStep(o)
            /\ clock'.currentTime >= StoredListener(o).endTime
                 => Distance(LastPoint(trails'[objs[o].id]).position,
                             StoredListener(o).target) <= 1]_vars

\* C27: a move whose longitude, latitude or height is NaN is rejected
\* without mutating state: the drone's curve, isFlying, currentPosition,
\* trail, the tick subscriptions and the clock are unchanged.
C27_InvalidMoveRejected ==
  [][lastOp'.op = "move" /\ lastOp'.arg = NaN
       => UNCHANGED <<clock, onTick, graphicMap, objs, trails>>]_vars

\* Whether the library raises on the NaN or computes with it, an invalid
\* move of a flying drone unsubscribes the completion listener of its
\* flight and replaces its curve.
C27_InvalidMoveCancels ==
  [][lastOp'.op = "move" /\ lastOp'.arg = NaN /\ lastOp'.flag
       => LET o == graphicMap[lastOp'.id]
          IN /\ ~Subscribed(onTick', objs[o].flightEndListener)
             /\ objs'[o].prop # objs[o].prop]_vars

\* C28: moveDroneTrail on a trail that holds points appends the point,
\* stamped with the clock's current time, if and only if it is farther
\* than 1 m from the trail's last point, and otherwise leaves the points
\* and lastUpdateTime as they are, unpruned; on an empty trail it appends
\* the point whatever it is.
C28_RecordBeyondThreshold ==
  [][lastOp'.op = "record" /\ map /\ lastOp'.flag =>
       LET old == trails[lastOp'.id]
           new == trails'[lastOp'.id]
           pt == [position |-> lastOp'.arg, timestamp |-> clock.currentTime]
       IN IF old.positions = <<>>
            THEN /\ new.positions = <<pt>>
                 /\ new.lastUpdateTime = clock.currentTime
          ELSE IF Distance(LastPoint(old).position, lastOp'.arg) > 1
            THEN /\ new.positions # <<>>
                 /\ LastPoint(new) = pt
                 /\ new.lastUpdateTime = clock.currentTime
                 /\ trailTime = NoTrailTime
                      => new.positions = Append(old.positions, pt)
          ELSE new = old]_vars

\* A point exactly 1 m from the last point of a trail that would otherwise
\* be pruned was offered and not recorded.
C28_Witness ==
  /\ lastOp.op = "record"
  /\ map
  /\ lastOp.flag
  /\ trailTime # NoTrailTime
  /\ Len(trails[lastOp.id].positions) > 1
  /\ trails[lastOp.id].positions[1].timestamp
       < clock.currentTime - trailTime
  /\ Distance(LastPoint(trails[lastOp.id]).position, lastOp.arg) = 1

Count(tr) == Len(tr.positions)

\* The trail was pruned to the retention window at the time the step
\* ends: it lost a point older than the window and holds none.
Pruned(id) ==
  /\ trailTime # NoTrailTime
  /\ \E i \in 1..Count(trails[id]) :
        trails[id].positions[i].timestamp < clock'.currentTime - trailTime
  /\ \A i \in 1..Count(trails'[id]) :
        trails'[id].positions[i].timestamp >= clock'.currentTime - trailTime

\* C29 as stated: over moves, ticks, loads and transport operations the
\* number of points of a trail decreases only in a step that is a clear
\* or a destroy.
C29_CountNeverDecreases ==
  [][\A id \in Ids :
       Count(trails'[id]) < Count(trails[id]) => lastOp'.op = "destroy"]_vars

\* C29 amended: the number of points of a trail decreases only in a
\* destroy, in a load of the drone (which replaces the points by the
\* waypoints), or in a move or a tick that records a point and prunes the
\* trail to the retention window; with no retention window, only in a
\* destroy or a load.
C29_CountDecreasesByPruning ==
  [][\A id \in Ids :
       Count(trails'[id]) < Count(trails[id]) =>
         \/ lastOp'.op = "destroy" /\ lastOp'.id = id
         \/ lastOp'.op = "load" /\ lastOp'.id = id
         \/ lastOp'.op \in {"move", "tick"} /\ Pruned(id)]_vars

\* A tick or a move, with no replay loaded, left the trail of a drone with
\* fewer points than it had, all of them within the retention window.
C29_Witness ==
  /\ lastOp.op \in {"move", "tick"}
  /\ sessions = <<>>
  /\ trailTime # NoTrailTime
  /\ \E id \in shrunk :
        \A i \in 1..Count(trails[id]) :
           trails[id].positions[i].timestamp >= clock.currentTime - trailTime

Spaced(tr) ==
  \A i \in 1..(Count(tr) - 1) :
     ~Less(Distance(tr.positions[i].position, tr.positions[i + 1].position),
           1)

\* C30: in every reachable state no two consecutive points of a trail are
\* closer to each other than the minimum distance (1 m), whether they
\* were recorded by a move, by a tick listener, at the completion of a
\* flight or by the load of a replay.
C30_NoCloseNeighbours == \A id \in Ids : Spaced(trails[id])

\* Until a replay is loaded no trail holds two consecutive points closer
\* than the minimum distance.
C30_SpacedBeforeLoad == sessions = <<>> => \A id \in Ids : Spaced(trails[id])

\* The points of a trail are in time order (two points may share a
\* timestamp).
Ordered(tr) ==
  \A i \in 1..(Count(tr) - 1) :
     tr.positions[i].timestamp <= tr.positions[i + 1].timestamp

\* C31: in every reachable state the points of every trail are in
\* increasing timestamp order, also when seek, stop, destroy or
\* configureClock move the clock's current time while the tick listeners
\* of a flight record points.
C31_TrailInTimeOrder == \A id \in Ids : Ordered(trails[id])

\* C32: after an append made by moveDroneTrail with a retention window W
\* other than -1 every point left in the trail is stamped at or after the
\* clock's current time minus W and the point appended is the trail's
\* last; with W = -1 moveDroneTrail removes no point.
C32_Retention ==
  [][lastOp'.op = "record" /\ map /\ lastOp'.flag =>
       LET old == trails[lastOp'.id]
           new == trails'[lastOp'.id]
           pt == [position |-> lastOp'.arg, timestamp |-> clock.currentTime]
       IN /\ trailTime # NoTrailTime /\ new # old =>
               /\ \A i \in 1..Count(new) :
                     new.positions[i].timestamp
                       >= clock.currentTime - trailTime
               /\ Count(new) > 0
               /\ LastPoint(new) = pt
          /\ trailTime = NoTrailTime =>
               \/ new.positions = old.positions
               \/ new.positions = Append(old.positions, pt)]_vars

\* A point was appended and the trail pruned to the retention window left
\* fewer points than there were.
C32_Witness ==
  /\ lastOp.op = "record"
  /\ map
  /\ lastOp.flag
  /\ trailTime # NoTrailTime
  /\ lastOp.id \in shrunk
  /\ LastPoint(trails[lastOp.id])
       = [position |-> lastOp.arg, timestamp |-> clock.currentTime]

\* The value of a curve at time t is the position of its first sample
\* when t is before it and of its last sample when t is after it.
Clamped(curve, t) ==
  /\ t < curve[1].t => GetValue(curve, t) = curve[1].p
  /\ t > curve[Len(curve)].t => GetValue(curve, t) = curve[Len(curve)].p

\* C33: the position curve of a drone, built by a replay load or by a
\* move, evaluated at a clock time before its first sample or after its
\* last sample gives the position of that boundary sample, never an
\* undefined value.
C33_ClampedAtBoundary ==
  \A o \in 1..Len(objs) : \A t \in Times :
     objs[o].prop # <<>> => Clamped(objs[o].prop, t)

\* The trail listener of every subscribed completion listener is
\* subscribed, and called, before it.
UpdateBeforeCompletion ==
  \A i \in 1..Len(onTick) :
     onTick[i].kind = "end" =>
       \E j \in 1..(i - 1) : onTick[j].lid = onTick[i].peer

\* C34: within one tick of a flight the trail update for the drone's
\* current position runs before the completion check, so that on the
\* completing tick the target is the last point the tick appends to the
\* trail: a trail that gained a point in that tick ends with the target,
\* stamped with the time of the tick.
C34_UpdateBeforeCompletion ==
  [][lastOp'.op = "tick" =>
       /\ UpdateBeforeCompletion
       /\ \A o \in 1..Len(objs) :
            /\ objs[o].flightEndListener # NoListener
            /\ clock'.currentTime >= StoredListener(o).endTime
            /\ trails'[objs[o].id] # trails[objs[o].id]
            => LastPoint(trails'[objs[o].id])
                 = [position |-> StoredListener(o).target,
                    timestamp |-> clock'.currentTime]]_vars

\* In every state the listeners are subscribed in that order.
C34_ListenerOrder == UpdateBeforeCompletion

\* C35: configureClock(start, end, rate, loop) sets the clock's start
\* bound to start, its stop bound to end, its current time to start, its
\* multiplier to rate, its range to loop-stop when loop is true and to
\* clamped otherwise, and sets the clock running; it changes no session's
\* isPlaying or hasPlayed, so that a session loaded and not yet played
\* stays ready and not playing.
C35_ConfigureClockFrame ==
  [][lastOp'.op = "configureClock" /\ map =>
       /\ clock' = [startTime |-> lastOp'.arg,
                    stopTime |-> lastOp'.endTime,
                    currentTime |-> lastOp'.arg,
                    multiplier |-> lastOp'.speed,
                    clockRange |-> IF lastOp'.flag THEN "LOOP_STOP"
                                                   ELSE "CLAMPED",
                    shouldAnimate |-> TRUE]
       /\ Len(sessions') = Len(sessions)
       /\ \A s \in 1..Len(sessions) :
            /\ sessions'[s].isPlaying = sessions[s].isPlaying
            /\ sessions'[s].hasPlayed = sessions[s].hasPlayed
       /\ phase' = phase]_vars

\* The window was configured, from a time other than the clock showed,
\* with a session loaded and not yet played.
C35_Witness ==
  /\ lastOp.op = "configureClock"
  /\ map
  /\ clock.currentTime = 1
  /\ clock.clockRange = "LOOP_STOP"
  /\ \E s \in 1..Len(sessions) :
        /\ phase[s] = "ready"
        /\ ~sessions[s].hasPlayed
        /\ ~sessions[s].isPlaying

\* The flight whose completion listener is k carries the drone id to
\* target.
FlyingTo(id, k, target) ==
  /\ graphicMap[id] # 0
  /\ objs[graphicMap[id]].isFlying
  /\ objs[graphicMap[id]].flightEndListener = k
  /\ StoredListener(graphicMap[id]).target = target

Landed(id, k, target) ==
  /\ graphicMap[id] # 0
  /\ ~objs[graphicMap[id]].isFlying
  /\ objs[graphicMap[id]].currentPosition = target
  /\ ~Subscribed(onTick, k)

\* A further move was given to the drone of the flight k.
MovedAgain(id, k) ==
  /\ lastOp.op = "move"
  /\ lastOp.id = id
  /\ graphicMap[id] # 0
  /\ objs[graphicMap[id]].flightEndListener # k

\* The completion listeners of the flights, which are subscribed second.
EndListeners == {2 * f : f \in 1..MaxFlights}

\* C36: every flight started by a move terminates: with the clock running
\* and the ticks delivered, and unless a further command is given to the
\* drone, eventually the drone is not flying, its currentPosition is the
\* target and the completion listener of the flight is unsubscribed.
C36_FlightTerminates ==
  \A id \in Drones, k \in EndListeners, target \in Positions :
     FlyingTo(id, k, target) ~> (Landed(id, k, target) \/ MovedAgain(id, k))

\* A step that changes the state by a tick is taken where TickEnabled
\* holds.
C36_TickTakenWhereEnabled ==
  [][lastOp'.op = "tick" => TickEnabled]_vars

\* A tick ended a flight: the drone has landed on the target of its last
\* flight, away from where it was created.
C36_Witness ==
  /\ lastOp.op = "tick"
  /\ FlightsStarted > 0
  /\ \E o \in 1..Len(objs) :
        /\ ~objs[o].isFlying
        /\ objs[o].flightEndListener = NoListener
        /\ \A i \in 1..Len(onTick) : onTick[i].kind # "end"
        /\ \E i \in 1..Len(objs[o].prop) :
              /\ objs[o].prop[i].t > MaxTime
              /\ objs[o].prop[i].p = objs[o].currentPosition

\* C37: with any number of sessions and flights on the one clock, a
\* session that is playing has the clock running: pausing, stopping or
\* loading one session leaves no other session playing on a halted clock.
C37_PlayingHasClockRunning ==
  \A s \in 1..Len(sessions) : sessions[s].isPlaying => clock.shouldAnimate

\* destroy() has removed the drone and its trail, and no load or move has
\* brought them back.
TornDown(id) ==
  /\ \E s \in 1..Len(sessions) :
        sessions[s].droneId = id /\ phase[s] = "destroyed"
  /\ graphicMap[id] = 0
  /\ ~trails[id].exists

\* C38: the drone and the trail that destroy() removed stay absent from
\* the registry and from the trail store at every later tick, until a
\* load or a move for that id, also when the destroy came while a flight
\* of the drone had its tick listeners subscribed.
C38_TeardownLasts ==
  [][lastOp'.op = "tick" =>
       \A id \in Ids :
          TornDown(id) => graphicMap'[id] = 0 /\ ~trails'[id].exists]_vars

\* With no flight listener subscribed the teardown lasts.
C38_TeardownLastsWithoutFlight ==
  [][lastOp'.op = "tick" =>
       \A id \in Ids :
          /\ TornDown(id)
          /\ \A i \in 1..Len(onTick) : onTick[i].kind = "replay"
          => graphicMap'[id] = 0 /\ ~trails'[id].exists]_vars

\* The registry never gets the drone back at a tick.
C38_RegistryStaysClear ==
  [][lastOp'.op = "tick" =>
       \A id \in Ids : TornDown(id) => graphicMap'[id] = 0]_vars

\* C39: after stop() and play() the drone of a session is driven by the
\* session's curve again: at every later tick while the session is
\* playing the drone's position is the curve's value at the clock's
\* current time.
C39_PlayingFollowsCurve ==
  [][lastOp'.op = "tick" =>
       \A s \in 1..Len(sessions) :
          phase[s] = "played" /\ sessions'[s].isPlaying =>
            EntityValue(objs'[DroneOf(s)], clock'.currentTime)
              = GetValue(objs'[DroneOf(s)].prop, clock'.currentTime)]_vars

\* A session that was never stopped follows its curve at every tick.
C39_FollowsCurveUnlessStopped ==
  [][lastOp'.op = "tick" =>
       \A s \in 1..Len(sessions) :
          /\ phase[s] = "played"
          /\ sessions'[s].isPlaying
          /\ objs[DroneOf(s)].posConst = NoPos
          => EntityValue(objs'[DroneOf(s)], clock'.currentTime)
               = GetValue(objs'[DroneOf(s)].prop, clock'.currentTime)]_vars

\* The data of session s as its load left them: the drone's curve has the
\* samples of the sorted waypoints and the trail's points are the sorted
\* waypoints.
Intact(s) ==
  LET loaded == SortByTimestamp(replayData)
  IN /\ objs[DroneOf(s)].prop = AddSamples(<<>>, loaded)
     /\ trails[sessions[s].droneId].positions = loaded

FlightSubscribed(id) ==
  \E i \in 1..Len(onTick) : onTick[i].kind = "end" /\ onTick[i].id = id

\* C40: a replay loaded for a drone that has a flight in progress keeps
\* its data at every later tick until another command: the samples of the
\* replay curve and the points of the trail are the loaded waypoints, the
\* listeners of the flight add none.
C40_LoadedDataIntact ==
  [][lastOp'.op = "tick" =>
       \A s \in 1..Len(sessions) :
          FlightSubscribed(sessions[s].droneId) => Intact(s)']_vars

\* The load itself leaves the data intact, over a flight or not.
C40_IntactAtLoad ==
  lastOp.op = "load" /\ lastOp.sid # 0 => Intact(lastOp.sid)

\* With no flight of the drone subscribed the ticks leave them intact.
C40_IntactWithoutFlight ==
  [][lastOp'.op = "tick" =>
       \A s \in 1..Len(sessions) :
          ~FlightSubscribed(sessions[s].droneId) /\ Intact(s) => Intact(s)']_vars

====
